---- MODULE Spec2Model ----
(***************************************************************************)
(* nodeterraform (ntf): a wrapper that resolves a Terraform version, finds *)
(* or downloads a matching binary under ~/.ntf, and runs it, forwarding    *)
(* signals and mirroring the exit status.                                  *)
(*                                                                         *)
(* Two entry scripts exist in the repository and both are modelled:        *)
(*   "latest" - the index script with the cached latest-version lookup     *)
(*              (src/unnamed/part_002, lines 1-227)                        *)
(*   "plain"  - the index script without it (src/index.js)                 *)
(* Both call downloadTerraform of the downloader (part_002, 229-668).      *)
(*                                                                         *)
(* Strings whose characters the code inspects (version names, tags, OS and *)
(* architecture names) are sequences of one-character strings.             *)
(***************************************************************************)
EXTENDS Integers, Sequences, FiniteSets, TLC

VARIABLES
    entry,          \* which index script this run executes
    pc,             \* position of the run
    envVersion,     \* process.env.TERRAFORM_VERSION of the run (<<>> = unset/empty)
    desiredVersion, \* ensureTerraform's desiredVersion (<<>> = undefined)
    baseExists,     \* ~/.ntf exists
    bins,           \* bins[d]: state of ~/.ntf/<d>/terraform
    zips,           \* zips[<<d, v>>]: content of the archive of version v in ~/.ntf/<d>/
    latest,         \* ~/.ntf/latest-version.json
    now,            \* Date.now()
    host,           \* what detectOSAndArch returned to this run
    net,            \* the request in flight and the redirects it has followed
    hist,           \* what this run has done so far (phases, requests, fetches, ...)
    terraformPath,  \* what ensureTerraform returned
    child,          \* the spawned child process
    sup,            \* how the supervising process ended
    sigs,           \* number of signals the supervisor received in this run
    runs,           \* number of runs started
    prev,           \* summary of the previous run
    mapIn,          \* input of the platform mapper under SpecMap
    mapOut,         \* its result
    cmpIn,          \* the two strings given to compareSemver under SpecCompare
    cmpOut,         \* its result
    argv,           \* process.argv of the run
    cli,            \* the downloader run as a command: options parsed, messages printed
    race            \* two runs of downloadTerraform at once under SpecRace

vars == <<entry, pc, envVersion, desiredVersion, baseExists, bins, zips, latest,
          now, host, net, hist, terraformPath, child, sup, sigs, runs, prev,
          mapIn, mapOut, cmpIn, cmpOut, argv, cli, race>>

-----------------------------------------------------------------------------
(* Bounds of the model *)

MaxVersions == 2    \* version names in play (a prefix of VersionPool)
MaxRuns == 2        \* runs of the command, one after the other
MaxSignals == 2     \* signals the supervisor receives in one run
MaxCode == 2        \* child exit codes 0..MaxCode
MaxRedirects == 1   \* redirects the model lets a server answer to one request
MaxChain == 3       \* redirects answered to one archive request under SpecFetch
MaxLen == 2         \* length of the generated strings given to compareSemver
MaxArgs == 2        \* command-line arguments of a run
MaxInvocations == 2 \* runs of downloadTerraform at the same time

-----------------------------------------------------------------------------
(* Strings *)

NoVersion == <<>>   \* undefined, null and '' alike: all falsy

V1_12_0 == <<"1", ".", "1", "2", ".", "0">>
V1_14_0 == <<"1", ".", "1", "4", ".", "0">>
V1_9_8 == <<"1", ".", "9", ".", "8">>

\* the downloader's built-in version
TERRAFORM_VERSION == <<"1", ".", "1", "3", ".", "3">>

VersionPool == <<TERRAFORM_VERSION, V1_12_0, V1_14_0, V1_9_8>>

Versions == {VersionPool[i] : i \in 1..MaxVersions}

UpperAlphabet == <<"A", "B", "C", "D", "E", "F", "G", "H", "I", "J", "K", "L", "M",
                   "N", "O", "P", "Q", "R", "S", "T", "U", "V", "W", "X", "Y", "Z">>
LowerAlphabet == <<"a", "b", "c", "d", "e", "f", "g", "h", "i", "j", "k", "l", "m",
                   "n", "o", "p", "q", "r", "s", "t", "u", "v", "w", "x", "y", "z">>

LowerChar(c) ==
    IF \E i \in 1..26 : UpperAlphabet[i] = c
    THEN LowerAlphabet[CHOOSE i \in 1..26 : UpperAlphabet[i] = c]
    ELSE c

toLowerCase(s) == [i \in DOMAIN s |-> LowerChar(s[i])]

-----------------------------------------------------------------------------
(* Platform Mapper: mapOSArchToTerraform (terraform-downloader) *)

s_windows == <<"w", "i", "n", "d", "o", "w", "s">>
s_macos == <<"m", "a", "c", "o", "s">>
s_linux == <<"l", "i", "n", "u", "x">>
s_freebsd == <<"f", "r", "e", "e", "b", "s", "d">>
s_openbsd == <<"o", "p", "e", "n", "b", "s", "d">>
s_solaris == <<"s", "o", "l", "a", "r", "i", "s">>
s_sunos == <<"s", "u", "n", "o", "s">>
s_darwin == <<"d", "a", "r", "w", "i", "n">>
s_x64 == <<"x", "6", "4">>
s_x86_64 == <<"x", "8", "6", "_", "6", "4">>
s_x86 == <<"x", "8", "6">>
s_ia32 == <<"i", "a", "3", "2">>
s_arm64 == <<"a", "r", "m", "6", "4">>
s_aarch64 == <<"a", "a", "r", "c", "h", "6", "4">>
s_arm == <<"a", "r", "m">>
s_amd64 == <<"a", "m", "d", "6", "4">>
s_386 == <<"3", "8", "6">>

\* what detectOSAndArch can return for os (os-detector) and os.arch() for arch,
\* and the other spellings the mapper's switch names
DetectedOS ==
    {<<"W", "i", "n", "d", "o", "w", "s">>,
     <<"m", "a", "c", "O", "S">>,
     <<"L", "i", "n", "u", "x">>,
     <<"F", "r", "e", "e", "B", "S", "D">>,
     <<"O", "p", "e", "n", "B", "S", "D">>,
     <<"S", "u", "n", "O", "S">>,
     <<"A", "I", "X">>,
     <<"a", "n", "d", "r", "o", "i", "d">>,
     <<"s", "o", "l", "a", "r", "i", "s">>,
     <<"W", "I", "N", "D", "O", "W", "S">>,
     <<"d", "a", "r", "w", "i", "n">>,
     <<"u", "n", "k", "n", "o", "w", "n">>}

DetectedArch ==
    {<<"x", "6", "4">>,
     <<"i", "a", "3", "2">>,
     <<"a", "r", "m", "6", "4">>,
     <<"a", "r", "m">>,
     <<"x", "8", "6", "_", "6", "4">>,
     <<"x", "8", "6">>,
     <<"a", "a", "r", "c", "h", "6", "4">>,
     <<"A", "R", "M", "6", "4">>,
     <<"p", "p", "c", "6", "4">>,
     <<"m", "i", "p", "s">>,
     <<"a", "m", "d", "6", "4">>,
     <<"u", "n", "k", "n", "o", "w", "n">>}

Unsupported(what) == [ok |-> FALSE, os |-> <<>>, arch |-> <<>>, error |-> what]

mapOS(detectedOS) ==
    LET o == toLowerCase(detectedOS) IN
    CASE o = s_windows -> s_windows
      [] o = s_macos   -> s_darwin
      [] o = s_linux   -> s_linux
      [] o = s_freebsd -> s_freebsd
      [] o = s_openbsd -> s_openbsd
      [] o = s_solaris -> s_solaris
      [] o = s_sunos   -> s_solaris
      [] OTHER         -> <<>>

\* a variant: an unknown architecture falls back to amd64
mapArch_default(detectedArch) ==
    LET a == toLowerCase(detectedArch) IN
    CASE a = s_x86     -> s_386
      [] a = s_ia32    -> s_386
      [] a = s_arm64   -> s_arm64
      [] a = s_aarch64 -> s_arm64
      [] a = s_arm     -> s_arm
      [] OTHER         -> s_amd64

mapArch(detectedArch) ==
    LET a == toLowerCase(detectedArch) IN
    CASE a = s_x64     -> s_amd64
      [] a = s_x86_64  -> s_amd64
      [] a = s_x86     -> s_386
      [] a = s_ia32    -> s_386
      [] a = s_arm64   -> s_arm64
      [] a = s_aarch64 -> s_arm64
      [] a = s_arm     -> s_arm
      [] OTHER         -> <<>>

\* the OS switch throws before the architecture is looked at
mapOSArchToTerraform(detectedOS, detectedArch) ==
    IF mapOS(detectedOS) = <<>> THEN Unsupported("os")
    ELSE IF mapArch(detectedArch) = <<>> THEN Unsupported("arch")
    ELSE [ok |-> TRUE, os |-> mapOS(detectedOS), arch |-> mapArch(detectedArch),
          error |-> "none"]

-----------------------------------------------------------------------------
(* Version comparison: compareSemver (both index scripts) *)

Digits == <<"0", "1", "2", "3", "4", "5", "6", "7", "8", "9">>

IsDigit(c) == \E i \in 1..10 : Digits[i] = c

DigitValue(c) == (CHOOSE i \in 1..10 : Digits[i] = c) - 1

\* a.split('.')
RECURSIVE split(_)
split(s) ==
    IF \A i \in DOMAIN s : s[i] # "."
    THEN <<s>>
    ELSE LET k == CHOOSE i \in DOMAIN s :
                      s[i] = "." /\ \A j \in 1..(i - 1) : s[j] # "."
         IN <<SubSeq(s, 1, k - 1)>> \o split(SubSeq(s, k + 1, Len(s)))

\* value of the leading run of digits of s, given the value acc read so far
RECURSIVE LeadingDigits(_, _)
LeadingDigits(s, acc) ==
    IF s = <<>> \/ ~IsDigit(Head(s)) THEN acc
    ELSE LeadingDigits(Tail(s), 10 * acc + DigitValue(Head(s)))

\* parseInt(n, 10) || 0: NaN (no leading digit) and 0 both give 0
parseIntOr0(n) ==
    IF n # <<>> /\ Head(n) = "-" THEN 0 - LeadingDigits(Tail(n), 0)
    ELSE IF n # <<>> /\ Head(n) = "+" THEN LeadingDigits(Tail(n), 0)
    ELSE LeadingDigits(n, 0)

Max(x, y) == IF x >= y THEN x ELSE y

\* a variant: a missing component counts below every number
Component_missingLow(pa, i) == IF i <= Len(pa) THEN parseIntOr0(pa[i]) ELSE -1

\* pa[i] || 0
Component(pa, i) == IF i <= Len(pa) THEN parseIntOr0(pa[i]) ELSE 0

RECURSIVE compareFrom(_, _, _)
compareFrom(pa, pb, i) ==
    IF i > Max(Len(pa), Len(pb)) THEN 0
    ELSE IF Component(pa, i) > Component(pb, i) THEN 1
    ELSE IF Component(pa, i) < Component(pb, i) THEN -1
    ELSE compareFrom(pa, pb, i + 1)

compareSemver(a, b) == compareFrom(split(a), split(b), 1)

-----------------------------------------------------------------------------
(* Cache Manager: findCachedTerraform *)

NoPath == [kind |-> "none", dir |-> <<>>]
SystemPath == [kind |-> "PATH", dir |-> <<>>]       \* the bare name 'terraform'
CachePath(d) == [kind |-> "cache", dir |-> d]       \* ~/.ntf/<d>/terraform

\* names of the directories that can exist under ~/.ntf
Dirs == Versions

\* fs.existsSync(path.join(baseDir, d, 'terraform'))
BinExists(binsNow, d) == d \in DOMAIN binsNow /\ binsNow[d] # "none"

\* /\d+\.\d+\.\d+/.test(name): not anchored
VersionPattern(name) ==
    \E i, j \in DOMAIN name :
        /\ i < j
        /\ name[i] = "." /\ name[j] = "."
        /\ i > 1 /\ IsDigit(name[i - 1])
        /\ j < Len(name) /\ IsDigit(name[j + 1])
        /\ j > i + 1
        /\ \A k \in (i + 1)..(j - 1) : IsDigit(name[k])

\* the loop over entries, in the order readdirSync lists them
RECURSIVE bestOf(_, _, _)
bestOf(binsNow, order, best) ==
    IF order = <<>> THEN best
    ELSE LET ver == Head(order) IN
         IF BinExists(binsNow, ver) /\ (best = <<>> \/ compareSemver(ver, best) > 0)
         THEN bestOf(binsNow, Tail(order), ver)
         ELSE bestOf(binsNow, Tail(order), best)

\* the orders in which readdirSync can list the set S of names
Orders(S) ==
    {o \in [1..Cardinality(S) -> S] : \A i, j \in DOMAIN o : i # j => o[i] # o[j]}

\* what fs.readdirSync(baseDir) gives: the names in some order, or it throws
\* (the directory cannot be read)
Listings(S) ==
    {[ok |-> TRUE, names |-> o] : o \in Orders(S)} \cup {[ok |-> FALSE, names |-> <<>>]}

NoListing == [ok |-> TRUE, names |-> <<>>]

\* the "plain" index script: desired version, else the highest version present;
\* an exception is caught and null returned
findCachedTerraform_plain(base, binsNow, desired, listing) ==
    IF ~base THEN NoPath
    ELSE IF desired # <<>> /\ BinExists(binsNow, desired) THEN CachePath(desired)
    ELSE IF ~listing.ok THEN NoPath
    ELSE LET entries == SelectSeq(listing.names, VersionPattern)
             best == bestOf(binsNow, entries, <<>>)
         IN IF best # <<>> THEN CachePath(best) ELSE NoPath

\* the "latest" index script: the desired version or nothing
findCachedTerraform_latest(base, binsNow, desired) ==
    IF ~base THEN NoPath
    ELSE IF desired # <<>> /\ BinExists(binsNow, desired) THEN CachePath(desired)
    ELSE NoPath

-----------------------------------------------------------------------------
(* Version Resolver: readLatestCache, normalizeVersion ("latest" index script) *)

ONE_HOUR_MS == 60 * 60 * 1000

NoRecord == [kind |-> "absent", version |-> <<>>, mtime |-> 0]

\* a variant: a file that cannot be parsed counts as a fresh record
readLatestCache_trusting(file, t) ==
    IF file.kind = "absent"
    THEN [found |-> FALSE, version |-> <<>>, fresh |-> FALSE]
    ELSE IF file.kind = "corrupt"
    THEN [found |-> TRUE, version |-> TERRAFORM_VERSION, fresh |-> TRUE]
    ELSE [found |-> TRUE, version |-> file.version,
          fresh |-> (t - file.mtime) < ONE_HOUR_MS]

\* a variant: age <= ONE_HOUR_MS
readLatestCache_inclusive(file, t) ==
    IF file.kind = "absent" \/ file.kind = "corrupt"
    THEN [found |-> FALSE, version |-> <<>>, fresh |-> FALSE]
    ELSE [found |-> TRUE, version |-> file.version,
          fresh |-> (t - file.mtime) <= 60 * 60 * 1000]

\* readLatestCache: null when the file is absent or reading/parsing it throws
readLatestCache(file, t) ==
    IF file.kind = "absent" \/ file.kind = "corrupt"
    THEN [found |-> FALSE, version |-> <<>>, fresh |-> FALSE]
    ELSE [found |-> TRUE, version |-> file.version,
          fresh |-> (t - file.mtime) < ONE_HOUR_MS]

\* cached && cached.data && cached.data.version && cached.fresh
UsableRecord(c) == c.found /\ c.version # <<>> /\ c.fresh

\* a variant: replace(/^v/, '')
normalizeVersion_lowerOnly(v) ==
    IF v = <<>> THEN <<>>
    ELSE IF Head(v) = "v" THEN Tail(v)
    ELSE v

\* String(v).replace(/^v/i, ''), null for a falsy v
normalizeVersion(v) ==
    IF v = <<>> THEN <<>>
    ELSE IF Head(v) = "v" \/ Head(v) = "V" THEN Tail(v)
    ELSE v

\* what an index payload can carry as release.tag_name || release.name, or
\* tags[0].name: nothing, a version, or a version behind a 'v' or a 'V'
Tags == {<<>>, <<"v">>} \cup Versions \cup {<<"v">> \o v : v \in Versions}
            \cup {<<"V">> \o TERRAFORM_VERSION}

-----------------------------------------------------------------------------
(* State of one run *)

\* the request in flight: where it goes, the redirects followed so far and the
\* most the servers will answer, the status of the last response, what
\* response.pipe(file) has written to the current write stream, and the error
\* event of the connection
NoNet == [to |-> "none", hops |-> 0, max |-> 0, status |-> 0, piped |-> <<>>,
          error |-> "none"]

Request(to, max) == [NoNet EXCEPT !.to = to, !.max = max]

NoChild == [status |-> "none", killed |-> FALSE, got |-> <<>>,
            code |-> -1, signal |-> "none",
            args |-> <<>>, env |-> "none", stdio |-> "none"]

\* process.argv: the interpreter, the script, then the arguments
ProcessArgv(args) == <<"node", "script">> \o args

NoArgv == ProcessArgv(<<>>)

\* a variant: slice(k + 1)
slice_oneMore(a, k) == SubSeq(a, k + 2, Len(a))

\* a.slice(k)
slice(a, k) == SubSeq(a, k + 1, Len(a))

\* the sequences of length 0..n over S
SeqsUpTo(S, n) == UNION {[1..k -> S] : k \in 0..n}

\* the downloader before it is run as a command
NoCli == [ran |-> FALSE, options |-> <<>>, out |-> <<>>, called |-> FALSE]

\* no concurrent runs
NoRace == <<>>

NoHist == [phases |-> <<>>, coldStart |-> FALSE,
           recReads |-> 0, recWrites |-> 0, recordSeen |-> NoRecord,
           primary |-> 0, tags |-> 0,
           cacheHit |-> FALSE, probe |-> "none",
           fetches |-> <<>>, extracts |-> <<>>,
           spawns |-> 0, readError |-> FALSE, tag |-> <<>>]

StillRunning == [kind |-> "running", code |-> -1, signal |-> "none"]
ExitedWith(c) == [kind |-> "code", code |-> c, signal |-> "none"]
KilledBy(sig) == [kind |-> "signal", code |-> -1, signal |-> sig]

Enter(h, phase) == [h EXCEPT !.phases = Append(@, phase)]

\* the machines the runs are made on: a supported one and one that is not
Hosts == {<<<<"L", "i", "n", "u", "x">>, s_x64>>,
          <<<<"A", "I", "X">>, <<"p", "p", "c", "6", "4">>>>}

NoHost == <<<<>>, <<>>>>

StartClock == ONE_HOUR_MS

\* caches that earlier provisioning (downloadTerraform with --output) left
\* behind: empty, or one version's binary
InitialBins ==
    {[d \in Dirs |-> "none"]}
    \cup {[d \in Dirs |-> IF d = v THEN "exec" ELSE "none"] : v \in Dirs}

InitialRecords ==
    {NoRecord, [kind |-> "corrupt", version |-> <<>>, mtime |-> 0]}
    \cup {[kind |-> "json", version |-> v, mtime |-> m] :
              v \in Versions \cup {<<>>}, m \in {0, 1}}

Init ==
    /\ entry = "latest"
    /\ pc = "idle"
    /\ envVersion = <<>>
    /\ desiredVersion = <<>>
    /\ bins \in InitialBins
    /\ baseExists \in BOOLEAN
    /\ baseExists \/ \A d \in Dirs : bins[d] = "none"
    /\ zips = [k \in Dirs \X Versions |-> "none"]
    /\ latest \in InitialRecords
    /\ baseExists \/ latest = NoRecord
    /\ now = StartClock
    /\ host = NoHost
    /\ net = NoNet
    /\ hist = NoHist
    /\ terraformPath = NoPath
    /\ child = NoChild
    /\ sup = StillRunning
    /\ sigs = <<>>
    /\ runs = 0
    /\ prev = [provisioned |-> <<>>]
    /\ mapIn = <<<<>>, <<>>>>
    /\ mapOut = Unsupported("none")
    /\ cmpIn = <<<<>>, <<>>>>
    /\ cmpOut = 0
    /\ argv = NoArgv
    /\ cli = NoCli
    /\ race = NoRace

\* the variables of the stand-alone specifications and the inputs of a run
mapVars == <<mapIn, mapOut, cmpIn, cmpOut, argv, cli, race>>
fsVars == <<baseExists, bins, zips, latest>>
childVars == <<child, sup, sigs>>

-----------------------------------------------------------------------------
(* ensureTerraform: version resolution *)

\* the version a run provisioned by download and extraction, if it did
Provisioned ==
    IF pc = "spawn" /\ terraformPath.kind = "cache" /\ hist.fetches # <<>>
    THEN hist.fetches[Len(hist.fetches)].version
    ELSE <<>>

\* the command is started: main() calls ensureTerraform
Start ==
    /\ pc = "idle"
    /\ runs < MaxRuns
    /\ runs' = runs + 1
    /\ entry' \in {"latest", "plain"}
    /\ envVersion' \in Versions \cup {<<>>}
    /\ hist' = Enter([NoHist EXCEPT !.coldStart = \A d \in Dirs : bins[d] = "none"],
                     "Resolve")
    /\ pc' = "resolve"
    /\ UNCHANGED <<desiredVersion, fsVars, now, host, net, terraformPath,
                   childVars, prev, mapVars>>

\* the process is gone (at once, or after it ran the child): what is left of
\* the run is the disk; the clock has moved on by the time of the next run
Gone ==
    /\ pc \in {"exited", "spawn"}
    /\ pc' = "idle"
    /\ prev' = [provisioned |-> Provisioned]
    /\ entry' = "latest"
    /\ envVersion' = <<>>
    /\ desiredVersion' = <<>>
    /\ hist' = NoHist
    /\ net' = NoNet
    /\ host' = NoHost
    /\ terraformPath' = NoPath
    /\ child' = NoChild
    /\ sup' = StillRunning
    /\ sigs' = <<>>
    /\ now' = now + 1
    /\ UNCHANGED <<fsVars, runs, mapVars>>

\* a variant: the lookup is made whether or not a version is pinned
NeedsLookup_always == entry = "latest"

\* if (!desiredVersion), with desiredVersion = process.env.TERRAFORM_VERSION ||
\* undefined: only the "latest" script has this lookup
NeedsLookup == entry = "latest" /\ envVersion = <<>>

\* process.env.TERRAFORM_VERSION || undefined is the desired version
ResolveExplicit ==
    /\ pc = "resolve"
    /\ ~NeedsLookup
    /\ desiredVersion' = envVersion
    /\ pc' = "cacheCheck"
    /\ hist' = Enter(hist, "CacheCheck")
    /\ UNCHANGED <<entry, envVersion, fsVars, now, host, net, terraformPath,
                   childVars, runs, prev, mapVars>>

\* getLatestTerraformVersionCached up to its first await: the record is read and,
\* unless it is usable, the request to the latest-release index is sent
ResolveFromRecord ==
    /\ pc = "resolve"
    /\ NeedsLookup
    /\ LET c == readLatestCache(latest, now)
           h == [hist EXCEPT !.recReads = @ + 1, !.recordSeen = latest]
       IN IF UsableRecord(c)
          THEN /\ desiredVersion' = c.version
               /\ pc' = "cacheCheck"
               /\ hist' = Enter(h, "CacheCheck")
               /\ net' = net
          ELSE /\ desiredVersion' = desiredVersion
               /\ pc' = "lookupPrimary"
               /\ hist' = [h EXCEPT !.primary = @ + 1]
               /\ net' = Request("primary", MaxRedirects)
    /\ UNCHANGED <<entry, envVersion, fsVars, now, host, terraformPath,
                   childVars, runs, prev, mapVars>>

\* requestJson: a 301/302/303/307/308 answer with a Location is followed
IndexRedirect ==
    /\ pc \in {"lookupPrimary", "lookupTags"}
    /\ net.hops < net.max
    /\ net' = [net EXCEPT !.hops = @ + 1]
    /\ UNCHANGED <<entry, pc, envVersion, desiredVersion, fsVars, now, host, hist,
                   terraformPath, childVars, runs, prev, mapVars>>

\* writeLatestCache(version): best effort, a failure is swallowed
writeLatestCache(version, wrote) ==
    IF wrote
    THEN /\ latest' = [kind |-> "json", version |-> version, mtime |-> now]
         /\ baseExists' = TRUE
    ELSE UNCHANGED <<latest, baseExists>>

\* a variant: a lookup that yields no version ends the run
FinishLookup_fatal(tag, wrote) ==
    LET version == normalizeVersion(tag) IN
    /\ IF version # <<>>
       THEN /\ writeLatestCache(version, wrote)
            /\ hist' = Enter([hist EXCEPT !.recWrites = @ + 1, !.tag = tag], "CacheCheck")
       ELSE /\ UNCHANGED <<latest, baseExists>>
            /\ hist' = hist
    /\ desiredVersion' = version
    /\ pc' = IF version # <<>> THEN "cacheCheck" ELSE "exited"
    /\ net' = NoNet

\* the end of getLatestTerraformVersionCached and the catch of ensureTerraform:
\* the tag of the answer is normalized; a falsy version throws and the run goes
\* on without a desired version
FinishLookup(tag, wrote) ==
    LET version == normalizeVersion(tag) IN
    /\ IF version # <<>>
       THEN /\ writeLatestCache(version, wrote)
            /\ hist' = Enter([hist EXCEPT !.recWrites = @ + 1, !.tag = tag], "CacheCheck")
       ELSE /\ UNCHANGED <<latest, baseExists>>
            /\ hist' = Enter(hist, "CacheCheck")
    /\ desiredVersion' = version
    /\ pc' = "cacheCheck"
    /\ net' = NoNet

\* the latest-release index answers 2xx with a JSON object
PrimaryAnswers ==
    /\ pc = "lookupPrimary"
    /\ \E tag \in Tags, wrote \in BOOLEAN :
           FinishLookup(tag, wrote)
    /\ UNCHANGED <<entry, envVersion, bins, zips, now, host, terraformPath,
                   childVars, runs, prev, mapVars>>

\* the latest-release request rejects (network error, non-2xx, unparsable body):
\* the catch sends the request to the tags index
PrimaryFails ==
    /\ pc = "lookupPrimary"
    /\ pc' = "lookupTags"
    /\ net' = Request("tags", MaxRedirects)
    /\ hist' = [hist EXCEPT !.tags = @ + 1]
    /\ UNCHANGED <<entry, envVersion, desiredVersion, fsVars, now, host,
                   terraformPath, childVars, runs, prev, mapVars>>

\* the tags index answers 2xx: with a non-empty array (name tag) or with
\* something else (empty array / not an array), which rethrows
TagsAnswers ==
    /\ pc = "lookupTags"
    /\ \/ \E tag \in Tags, wrote \in BOOLEAN : FinishLookup(tag, wrote)
       \/ FinishLookup(<<>>, FALSE)
    /\ UNCHANGED <<entry, envVersion, bins, zips, now, host, terraformPath,
                   childVars, runs, prev, mapVars>>

\* the tags request rejects too: getLatestTerraformVersionCached throws
TagsFails ==
    /\ pc = "lookupTags"
    /\ FinishLookup(<<>>, FALSE)
    /\ UNCHANGED <<entry, envVersion, bins, zips, now, host, terraformPath,
                   childVars, runs, prev, mapVars>>

-----------------------------------------------------------------------------
(* ensureTerraform: cache lookup and PATH probe *)

\* process.exit(1) inside downloadTerraform's catch, or after a spawn error
Fail ==
    /\ sup' = ExitedWith(1)
    /\ pc' = "exited"

\* findCachedTerraform(desiredVersion) of the running script
findCachedTerraform(listing) ==
    IF entry = "plain"
    THEN findCachedTerraform_plain(baseExists, bins, desiredVersion, listing)
    ELSE findCachedTerraform_latest(baseExists, bins, desiredVersion)

\* the call gets as far as fs.readdirSync(baseDir)
ReadsListing ==
    /\ entry = "plain"
    /\ baseExists
    /\ ~(desiredVersion # <<>> /\ BinExists(bins, desiredVersion))

\* the listings a call can see
ListingsNow == IF ReadsListing THEN Listings(DOMAIN bins) ELSE {NoListing}

\* a variant: the PATH probe is made whatever the lookup returned
AfterLookup_alwaysProbe(cached) == "pathProbe"

\* where ensureTerraform goes after the lookup returned cached
AfterLookup(cached) == IF cached # NoPath THEN "spawn" ELSE "pathProbe"

\* a variant: the lookup creates the cache root when it is missing
CacheCheck_creates ==
    /\ pc = "cacheCheck"
    /\ \E listing \in ListingsNow :
         LET cached == findCachedTerraform(listing)
             h == [hist EXCEPT !.cacheHit = cached # NoPath, !.readError = ~listing.ok]
         IN
         /\ terraformPath' = cached
         /\ pc' = AfterLookup(cached)
         /\ hist' = IF AfterLookup(cached) = "pathProbe" THEN Enter(h, "PathProbe") ELSE h
    /\ baseExists' = TRUE
    /\ UNCHANGED <<entry, envVersion, desiredVersion, bins, zips, latest, now, host, net,
                   childVars, runs, prev, mapVars>>

\* const cached = findCachedTerraform(desiredVersion); if (cached) return cached
CacheCheck ==
    /\ pc = "cacheCheck"
    /\ \E listing \in ListingsNow :
         LET cached == findCachedTerraform(listing)
             h == [hist EXCEPT !.cacheHit = cached # NoPath, !.readError = ~listing.ok]
         IN
         /\ terraformPath' = cached
         /\ pc' = AfterLookup(cached)
         /\ hist' = IF AfterLookup(cached) = "pathProbe" THEN Enter(h, "PathProbe") ELSE h
    /\ UNCHANGED <<entry, envVersion, desiredVersion, fsVars, now, host, net,
                   childVars, runs, prev, mapVars>>

\* findCachedTerraform(desiredVersion) called once more on the same cache: the
\* root is as readable as it was, the order of the listing is free
CacheCheckAgain ==
    /\ pc \in {"spawn", "pathProbe"}
    /\ \E listing \in ListingsNow :
         /\ listing.ok = ~hist.readError
         /\ terraformPath' = findCachedTerraform(listing)
    /\ pc' = "checkedAgain"
    /\ UNCHANGED <<entry, envVersion, desiredVersion, fsVars, now, host, net, hist,
                   childVars, runs, prev, mapVars>>

\* spawnSync('terraform', ['version']): status 0 or not (absent, failing)
PathProbe ==
    /\ pc = "pathProbe"
    /\ \E ok \in BOOLEAN :
         IF ok
         THEN /\ terraformPath' = SystemPath
              /\ pc' = "spawn"
              /\ hist' = [hist EXCEPT !.probe = "ok"]
         ELSE /\ terraformPath' = terraformPath
              /\ pc' = "provision"
              /\ hist' = Enter([hist EXCEPT !.probe = "fail"], "Provision")
    /\ UNCHANGED <<entry, envVersion, desiredVersion, fsVars, now, host, net,
                   childVars, runs, prev, mapVars>>

-----------------------------------------------------------------------------
(* downloadTerraform(version) as ensureTerraform calls it: outputDir = null,
   extract = true *)

\* the argument: desiredVersion || process.env.TERRAFORM_VERSION || undefined
\* ("latest"), process.env.TERRAFORM_VERSION || undefined ("plain")
VersionArgument ==
    IF entry = "latest" /\ desiredVersion # <<>> THEN desiredVersion ELSE envVersion

\* the default parameter: version = TERRAFORM_VERSION when undefined
VersionParameter(version) == IF version = <<>> THEN TERRAFORM_VERSION ELSE version

\* path.join(os.homedir(), '.ntf', TERRAFORM_VERSION), as a directory name under ~/.ntf
DEFAULT_OUTPUT_DIR == TERRAFORM_VERSION

\* if (!outputDir) outputDir = DEFAULT_OUTPUT_DIR
OutputDir(version, outputDir) ==
    IF outputDir = <<>> THEN DEFAULT_OUTPUT_DIR ELSE outputDir

\* terraform_<version>_<os>_<arch>.zip under releases.hashicorp.com/terraform/<version>/
buildTerraformURL(version, os, arch) ==
    [version |-> version, os |-> os, arch |-> arch]

\* the version and the directory of the download in progress
CurVersion == VersionParameter(VersionArgument)
CurDir == OutputDir(CurVersion, <<>>)
CurZip == <<CurDir, CurVersion>>

\* a variant: the archive is fetched whatever is on disk
ArchiveOnDisk_ignored(zip) == FALSE

\* fs.existsSync(filePath) before the download
ArchiveOnDisk(zip) == zips[zip] # "none"

\* downloadTerraform up to its first await: platform mapping, the check for an
\* archive already on disk, and the start of downloadFile
Provision ==
    /\ pc = "provision"
    /\ \E h \in Hosts :
       LET p == mapOSArchToTerraform(h[1], h[2]) IN
       /\ host' = h
       /\ IF ~p.ok
          THEN /\ Fail
               /\ UNCHANGED <<fsVars, net, hist>>
          ELSE IF ArchiveOnDisk(CurZip)
          THEN /\ pc' = "extract"
               /\ hist' = Enter(hist, "Extract")
               /\ UNCHANGED <<fsVars, net, sup>>
          ELSE /\ pc' = "fetch"
               /\ baseExists' = TRUE
               /\ zips' = [zips EXCEPT ![CurZip] = "partial"]
               /\ net' = Request("archive", MaxRedirects)
               /\ hist' = Enter([hist EXCEPT
                                   !.fetches = Append(@, buildTerraformURL(CurVersion, p.os, p.arch))],
                                 "Fetch")
               /\ UNCHANGED <<bins, latest, sup>>
    /\ UNCHANGED <<entry, envVersion, desiredVersion, now, terraformPath,
                   child, sigs, runs, prev, mapVars>>

\* the statuses downloadFile follows to the Location header
FollowedStatuses == {301, 302}

\* statuses other than 200 that downloadFile does not follow
RejectedStatuses == {303, 307, 308, 404}

\* downloadFile when the response has this status: the request is made again on
\* the Location (a new request, with no response yet), or its status stands
follow(request, status) ==
    IF status \in FollowedStatuses
    THEN [request EXCEPT !.hops = @ + 1, !.status = 0, !.piped = <<>>]
    ELSE [request EXCEPT !.status = status]

\* downloadFile: a 301 or 302 answer; the file is unlinked and downloadFile
\* starts again (new write stream, new request) on the Location
FetchRedirect ==
    /\ pc = "fetch"
    /\ net.hops < net.max
    /\ \E status \in FollowedStatuses : net' = follow(net, status)
    /\ zips' = [zips EXCEPT ![CurZip] = "partial"]
    /\ UNCHANGED <<entry, pc, envVersion, desiredVersion, baseExists, bins, latest,
                   now, host, hist, terraformPath, childVars, runs, prev, mapVars>>

\* downloadFile: a 301 or 302 answer whose Location is the URL the chain
\* started with; downloadFile keeps no count and no list of the URLs it has
\* requested, so it is where it was at the first request
FetchRedirectBack ==
    /\ pc = "fetch"
    /\ net.hops > 0
    /\ \E status \in FollowedStatuses : net' = [follow(net, status) EXCEPT !.hops = 0]
    /\ zips' = [zips EXCEPT ![CurZip] = "partial"]
    /\ UNCHANGED <<entry, pc, envVersion, desiredVersion, baseExists, bins, latest,
                   now, host, hist, terraformPath, childVars, runs, prev, mapVars>>

\* the ways a request of downloadFile is rejected: a status other than
\* 200/301/302, an 'error' event of the request before any response, or one
\* after a 200 response whose body was being piped. The rejection passes up
\* through every downloadFile call of the chain (.catch(reject)): what is kept
\* is how the last request ended
Rejections ==
    LET last == Request("archive", net.max) IN
    {follow(last, status) : status \in RejectedStatuses}
    \cup {[last EXCEPT !.error = "request"],
          [last EXCEPT !.status = 200, !.piped = <<"part">>, !.error = "request"]}

\* a variant: the rejection leaves the file where it is
FetchFails_keepsFile ==
    /\ pc = "fetch"
    /\ net' \in Rejections
    /\ zips' = zips
    /\ Fail
    /\ UNCHANGED <<entry, envVersion, desiredVersion, baseExists, bins, latest,
                   now, host, hist, terraformPath, child, sigs, runs, prev, mapVars>>

\* downloadFile rejects: the file is unlinked, the promise rejects and
\* downloadTerraform's catch exits
FetchFails ==
    /\ pc = "fetch"
    /\ net' \in Rejections
    /\ zips' = [zips EXCEPT ![CurZip] = "none"]
    /\ Fail
    /\ UNCHANGED <<entry, envVersion, desiredVersion, baseExists, bins, latest,
                   now, host, hist, terraformPath, child, sigs, runs, prev, mapVars>>

\* the connection is closed in the middle of the body of a 200 response with
\* no 'error' event on the request: the response has no 'error', 'aborted' or
\* 'close' listener, the write stream is never ended, the promise of
\* downloadFile never settles; with nothing left to wait for, the process ends
\* with code 0 and the bytes written so far stay on disk
FetchAborted ==
    /\ pc = "fetch"
    /\ net' = [Request("archive", net.max) EXCEPT
                  !.status = 200, !.piped = <<"part">>, !.error = "aborted"]
    /\ sup' = ExitedWith(0)
    /\ pc' = "exited"
    /\ UNCHANGED <<entry, envVersion, desiredVersion, fsVars, now, host, hist,
                   terraformPath, child, sigs, runs, prev, mapVars>>

\* what a served archive can hold
ArchiveContents == {"good", "nobin", "corrupt"}

\* a variant: the body is appended to what the file held before the request
FetchCompletes_appends ==
    /\ pc = "fetch"
    /\ \E body \in ArchiveContents :
         /\ zips' = [zips EXCEPT ![CurZip] = body]
         /\ net' = [net EXCEPT !.status = 200,
                               !.piped = [i \in 1..net.hops |-> "stale"] \o <<body>>]
    /\ pc' = "extract"
    /\ hist' = Enter(hist, "Extract")
    /\ UNCHANGED <<entry, envVersion, desiredVersion, baseExists, bins, latest,
                   now, host, terraformPath, childVars, runs, prev, mapVars>>

\* downloadFile: 200, the body is piped to the file and the stream finishes
FetchCompletes ==
    /\ pc = "fetch"
    /\ \E body \in ArchiveContents :
         /\ zips' = [zips EXCEPT ![CurZip] = body]
         /\ net' = [net EXCEPT !.status = 200, !.piped = Append(@, body)]
    /\ pc' = "extract"
    /\ hist' = Enter(hist, "Extract")
    /\ UNCHANGED <<entry, envVersion, desiredVersion, baseExists, bins, latest,
                   now, host, terraformPath, childVars, runs, prev, mapVars>>

\* extractZip succeeds: the entries are written, terraform (if the archive has
\* it) is made executable
ExtractOk ==
    /\ pc = "extract"
    /\ zips[CurZip] \in {"good", "nobin"}
    /\ bins' = IF zips[CurZip] = "good" THEN [bins EXCEPT ![CurDir] = "exec"] ELSE bins
    /\ baseExists' = TRUE
    /\ pc' = "finalize"
    /\ hist' = Enter([hist EXCEPT !.extracts = Append(@, CurDir)], "Finalize")
    /\ net' = NoNet
    /\ UNCHANGED <<entry, envVersion, desiredVersion, zips, latest, now, host,
                   terraformPath, childVars, runs, prev, mapVars>>

\* extractZip throws (corrupt or incomplete archive, no extraction utility,
\* permission denied); the directory may be left partially populated
ExtractFails ==
    /\ pc = "extract"
    /\ \E partial \in BOOLEAN :
         bins' = IF partial /\ zips[CurZip] # "nobin"
                 THEN [bins EXCEPT ![CurDir] = "noexec"] ELSE bins
    /\ baseExists' = TRUE
    /\ net' = NoNet
    /\ Fail
    /\ UNCHANGED <<entry, envVersion, desiredVersion, zips, latest, now, host,
                   hist, terraformPath, child, sigs, runs, prev, mapVars>>

\* a variant: the path is returned without looking for the binary
BinaryExtracted_unchecked == TRUE

\* fs.existsSync(binaryPath) after extraction
BinaryExtracted == BinExists(bins, CurDir)

\* after extraction: the binary must exist; the archive is unlinked (best
\* effort); back in ensureTerraform the binary is chmod-ed (best effort)
Finalize ==
    /\ pc = "finalize"
    /\ IF BinaryExtracted
       THEN /\ \E removed, chmodOk \in BOOLEAN :
                 /\ zips' = IF removed THEN [zips EXCEPT ![CurZip] = "none"] ELSE zips
                 /\ bins' = IF chmodOk THEN [bins EXCEPT ![CurDir] = "exec"] ELSE bins
            /\ terraformPath' = CachePath(CurDir)
            /\ pc' = "spawn"
            /\ sup' = sup
       ELSE /\ Fail
            /\ UNCHANGED <<zips, bins, terraformPath>>
    /\ UNCHANGED <<entry, envVersion, desiredVersion, baseExists, latest, now, host,
                   net, hist, child, sigs, runs, prev, mapVars>>

-----------------------------------------------------------------------------
(* Process Supervisor: main() after ensureTerraform returned *)

\* the signals main() installs handlers for
HandledSignals == {"SIGINT", "SIGTERM", "SIGHUP"}

\* signals that can end the child; SIGKILL stands for those without a handler
Signals == HandledSignals \cup {"SIGKILL"}

IsExecutable(path) ==
    path.kind = "PATH" \/ (path.kind = "cache" /\ path.dir \in DOMAIN bins
                            /\ bins[path.dir] = "exec")

\* spawn(terraformPath, args, ...) starts the child; the signal handlers and the
\* exit and error handlers are installed in the same synchronous block
SpawnOk ==
    /\ pc = "spawn"
    /\ IsExecutable(terraformPath)
    /\ child' = [NoChild EXCEPT !.status = "running",
                                !.args = slice(argv, 2),
                                !.env = "process.env",
                                !.stdio = "inherit"]
    /\ hist' = [hist EXCEPT !.spawns = @ + 1]
    /\ pc' = "running"
    /\ UNCHANGED <<entry, envVersion, desiredVersion, fsVars, now, host, net,
                   terraformPath, sup, sigs, runs, prev, mapVars>>

\* a variant: a failed spawn is tried once more
SpawnError_retries ==
    /\ pc = "spawn"
    /\ hist' = [hist EXCEPT !.spawns = @ + 1]
    /\ IF hist.spawns < 1
       THEN UNCHANGED <<pc, sup>>
       ELSE Fail
    /\ UNCHANGED <<entry, envVersion, desiredVersion, fsVars, now, host, net,
                   terraformPath, child, sigs, runs, prev, mapVars>>

\* child.on('error'): the spawn failed; process.exit(1)
SpawnError ==
    /\ pc = "spawn"
    /\ hist' = [hist EXCEPT !.spawns = @ + 1]
    /\ Fail
    /\ UNCHANGED <<entry, envVersion, desiredVersion, fsVars, now, host, net,
                   terraformPath, child, sigs, runs, prev, mapVars>>

\* if (!child.killed) child.kill(sig): the signal is sent unless one was sent
\* before; child.kill sets child.killed once a signal has been sent
forward(c, sig) ==
    IF ~c.killed
    THEN [c EXCEPT !.killed = TRUE,
                   !.got = IF c.status = "running" THEN Append(@, sig) ELSE @]
    ELSE c

\* the supervisor receives sig: its handler runs, the process goes on
SupervisorSignal ==
    /\ pc = "running"
    /\ Len(sigs) < MaxSignals
    /\ \E sig \in HandledSignals :
         /\ sigs' = Append(sigs, sig)
         /\ child' = forward(child, sig)
    /\ UNCHANGED <<entry, pc, envVersion, desiredVersion, fsVars, now, host, net,
                   hist, terraformPath, sup, runs, prev, mapVars>>

\* the child ends on its own with an exit code
ChildExits ==
    /\ pc = "running" /\ child.status = "running"
    /\ \E code \in 0..MaxCode :
         child' = [child EXCEPT !.status = "exited", !.code = code]
    /\ UNCHANGED <<entry, pc, envVersion, desiredVersion, fsVars, now, host, net,
                   hist, terraformPath, sup, sigs, runs, prev, mapVars>>

\* the child is ended by a signal, forwarded or sent to it by somebody else
ChildKilled ==
    /\ pc = "running" /\ child.status = "running"
    /\ \E sig \in Signals :
         child' = [child EXCEPT !.status = "exited", !.signal = sig]
    /\ UNCHANGED <<entry, pc, envVersion, desiredVersion, fsVars, now, host, net,
                   hist, terraformPath, sup, sigs, runs, prev, mapVars>>

\* the child ends and neither a code nor a signal is reported
ChildLost ==
    /\ pc = "running" /\ child.status = "running"
    /\ child' = [child EXCEPT !.status = "exited"]
    /\ UNCHANGED <<entry, pc, envVersion, desiredVersion, fsVars, now, host, net,
                   hist, terraformPath, sup, sigs, runs, prev, mapVars>>

\* a variant: process.exit(code || 1)
exitCodeFor_truthy(code) == IF code = -1 \/ code = 0 THEN 1 ELSE code

\* process.exit(code == null ? 1 : code)
exitCodeFor(code) == IF code = -1 THEN 1 ELSE code

\* process.kill(process.pid, signal): a signal the process has a handler for
\* runs the handler (which finds the child gone) and the process, with nothing
\* left to wait for, ends with code 0; any other signal ends it
raiseOnSelf(signal) ==
    IF signal \in HandledSignals THEN ExitedWith(0) ELSE KilledBy(signal)

\* the body of the 'exit' handler for the (code, signal) the child ended with
exitHandler(code, signal) ==
    IF signal # "none" THEN raiseOnSelf(signal) ELSE ExitedWith(exitCodeFor(code))

\* child.on('exit', (code, signal) => ...)
OnChildExit ==
    /\ pc = "running" /\ child.status = "exited"
    /\ sup' = exitHandler(child.code, child.signal)
    /\ pc' = "exited"
    /\ UNCHANGED <<entry, envVersion, desiredVersion, fsVars, now, host, net,
                   hist, terraformPath, child, sigs, runs, prev, mapVars>>

-----------------------------------------------------------------------------
(* The provisioning pipeline, run after run. A run is followed here up to the
   return of ensureTerraform or the exit of the process; what main() does with
   the returned path, which touches nothing on disk, is SpecSup below. *)

Next ==
    \/ Start
    \/ Gone
    \/ ResolveExplicit
    \/ ResolveFromRecord
    \/ IndexRedirect
    \/ PrimaryAnswers
    \/ PrimaryFails
    \/ TagsAnswers
    \/ TagsFails
    \/ CacheCheck
    \/ PathProbe
    \/ Provision
    \/ FetchRedirect
    \/ FetchFails
    \/ FetchAborted
    \/ FetchCompletes
    \/ ExtractOk
    \/ ExtractFails
    \/ Finalize

Spec == Init /\ [][Next]_vars

-----------------------------------------------------------------------------
(* The Process Supervisor alone: from the return of ensureTerraform on *)

\* arguments a user passes on to terraform
PassedArguments == {"plan", "--version", "-h"}

\* ensureTerraform has returned: 'terraform' from the PATH probe, or a cache
\* path whose binary exists (executable or not)
InitSup ==
    /\ entry \in {"latest", "plain"}
    /\ pc = "spawn"
    /\ envVersion = <<>>
    /\ desiredVersion = <<>>
    /\ baseExists = TRUE
    /\ \E d \in Dirs, mode \in {"exec", "noexec"} :
         /\ bins = [x \in Dirs |-> IF x = d THEN mode ELSE "none"]
         /\ terraformPath \in {SystemPath, CachePath(d)}
    /\ zips = [k \in Dirs \X Versions |-> "none"]
    /\ latest = NoRecord
    /\ now = StartClock
    /\ host = NoHost
    /\ net = NoNet
    /\ hist = NoHist
    /\ child = NoChild
    /\ sup = StillRunning
    /\ sigs = <<>>
    /\ runs = 1
    /\ prev = [provisioned |-> <<>>]
    /\ mapIn = <<<<>>, <<>>>>
    /\ mapOut = Unsupported("none")
    /\ cmpIn = <<<<>>, <<>>>>
    /\ cmpOut = 0
    /\ argv \in {ProcessArgv(args) : args \in SeqsUpTo(PassedArguments, MaxArgs)}
    /\ cli = NoCli
    /\ race = NoRace

NextSup ==
    \/ SpawnOk
    \/ SpawnError
    \/ SupervisorSignal
    \/ ChildExits
    \/ ChildKilled
    \/ ChildLost
    \/ OnChildExit

SpecSup == InitSup /\ [][NextSup]_vars

-----------------------------------------------------------------------------
(* The Platform Mapper alone, over every pair of detected names *)

InitMap ==
    /\ entry = "latest"
    /\ pc = "map"
    /\ envVersion = <<>>
    /\ desiredVersion = <<>>
    /\ baseExists = FALSE
    /\ bins = [x \in Dirs |-> "none"]
    /\ zips = [k \in Dirs \X Versions |-> "none"]
    /\ latest = NoRecord
    /\ now = StartClock
    /\ host = NoHost
    /\ net = NoNet
    /\ hist = NoHist
    /\ terraformPath = NoPath
    /\ child = NoChild
    /\ sup = StillRunning
    /\ sigs = <<>>
    /\ runs = 0
    /\ prev = [provisioned |-> <<>>]
    /\ mapIn \in DetectedOS \X DetectedArch
    /\ mapOut = Unsupported("none")
    /\ cmpIn = <<<<>>, <<>>>>
    /\ cmpOut = 0
    /\ argv = NoArgv
    /\ cli = NoCli
    /\ race = NoRace

\* const terraformPlatform = mapOSArchToTerraform(systemInfo.os, systemInfo.arch)
MapPlatform ==
    /\ pc = "map"
    /\ mapOut' = mapOSArchToTerraform(mapIn[1], mapIn[2])
    /\ pc' = "mapped"
    /\ UNCHANGED <<entry, envVersion, desiredVersion, fsVars, now, host, net, hist,
                   terraformPath, childVars, runs, prev, mapIn, cmpIn, cmpOut,
                   argv, cli, race>>

NextMap == MapPlatform

SpecMap == InitMap /\ [][NextMap]_vars

-----------------------------------------------------------------------------
(* The Archive Fetcher alone: downloadFile from its first request on, with
   servers that answer up to MaxChain redirects *)

\* downloadTerraform has created the write stream and sent the first request
InitFetch ==
    /\ entry \in {"latest", "plain"}
    /\ pc = "fetch"
    /\ envVersion \in Versions \cup {<<>>}
    /\ desiredVersion = envVersion
    /\ baseExists = TRUE
    /\ bins = [x \in Dirs |-> "none"]
    /\ zips = [k \in Dirs \X Versions |-> IF k = CurZip THEN "partial" ELSE "none"]
    /\ latest = NoRecord
    /\ now = StartClock
    /\ host = <<<<"L", "i", "n", "u", "x">>, s_x64>>
    /\ net = Request("archive", MaxChain)
    /\ hist = [NoHist EXCEPT
                 !.phases = <<"Resolve", "CacheCheck", "PathProbe", "Provision", "Fetch">>,
                 !.coldStart = TRUE,
                 !.probe = "fail",
                 !.fetches = <<buildTerraformURL(CurVersion, s_linux, s_amd64)>>]
    /\ terraformPath = NoPath
    /\ child = NoChild
    /\ sup = StillRunning
    /\ sigs = <<>>
    /\ runs = 1
    /\ prev = [provisioned |-> <<>>]
    /\ mapIn = <<<<>>, <<>>>>
    /\ mapOut = Unsupported("none")
    /\ cmpIn = <<<<>>, <<>>>>
    /\ cmpOut = 0
    /\ argv = NoArgv
    /\ cli = NoCli
    /\ race = NoRace

NextFetch ==
    \/ FetchRedirect
    \/ FetchRedirectBack
    \/ FetchFails
    \/ FetchAborted
    \/ FetchCompletes

SpecFetch == InitFetch /\ [][NextFetch]_vars

\* the same with progress: a request in flight is answered or fails
SpecFetchLive == InitFetch /\ [][NextFetch]_vars /\ WF_vars(NextFetch)

-----------------------------------------------------------------------------
(* The Cache Manager alone: findCachedTerraform over caches that hold
   directories of any name *)

\* names under ~/.ntf that are no three-component version: "1.12" and "1.13.3.1"
OtherNames == {<<"1", ".", "1", "2">>, <<"1", ".", "1", "3", ".", "3", ".", "1">>}

FindDirs == Versions \cup OtherNames

\* ensureTerraform is about to call findCachedTerraform(desiredVersion)
InitFind ==
    /\ entry \in {"latest", "plain"}
    /\ pc = "cacheCheck"
    /\ desiredVersion \in Versions \cup {<<>>}
    /\ envVersion = desiredVersion
    /\ baseExists \in BOOLEAN
    /\ bins \in [FindDirs -> {"none", "exec"}]
    /\ baseExists \/ \A d \in FindDirs : bins[d] = "none"
    /\ zips = [k \in Dirs \X Versions |-> "none"]
    /\ latest = NoRecord
    /\ now = StartClock
    /\ host = NoHost
    /\ net = NoNet
    /\ hist = [NoHist EXCEPT !.phases = <<"Resolve", "CacheCheck">>]
    /\ terraformPath = NoPath
    /\ child = NoChild
    /\ sup = StillRunning
    /\ sigs = <<>>
    /\ runs = 1
    /\ prev = [provisioned |-> <<>>]
    /\ mapIn = <<<<>>, <<>>>>
    /\ mapOut = Unsupported("none")
    /\ cmpIn = <<<<>>, <<>>>>
    /\ cmpOut = 0
    /\ argv = NoArgv
    /\ cli = NoCli
    /\ race = NoRace

NextFind ==
    \/ CacheCheck
    \/ CacheCheckAgain

SpecFind == InitFind /\ [][NextFind]_vars

-----------------------------------------------------------------------------
(* The cache lookup of the plain script over directory names that denote the
   same version *)

\* "1.13.3.0" and "01.13.3" next to "1.13.3" and "1.12.0"
TieDirs == {TERRAFORM_VERSION, TERRAFORM_VERSION \o <<".", "0">>,
            <<"0">> \o TERRAFORM_VERSION, V1_12_0}

\* ensureTerraform of the plain script is about to call findCachedTerraform
InitTies ==
    /\ entry = "plain"
    /\ pc = "cacheCheck"
    /\ desiredVersion \in Versions \cup {<<>>}
    /\ envVersion = desiredVersion
    /\ baseExists \in BOOLEAN
    /\ bins \in [TieDirs -> {"none", "exec"}]
    /\ baseExists \/ \A d \in TieDirs : bins[d] = "none"
    /\ zips = [k \in Dirs \X Versions |-> "none"]
    /\ latest = NoRecord
    /\ now = StartClock
    /\ host = NoHost
    /\ net = NoNet
    /\ hist = [NoHist EXCEPT !.phases = <<"Resolve", "CacheCheck">>]
    /\ terraformPath = NoPath
    /\ child = NoChild
    /\ sup = StillRunning
    /\ sigs = <<>>
    /\ runs = 1
    /\ prev = [provisioned |-> <<>>]
    /\ mapIn = <<<<>>, <<>>>>
    /\ mapOut = Unsupported("none")
    /\ cmpIn = <<<<>>, <<>>>>
    /\ cmpOut = 0
    /\ argv = NoArgv
    /\ cli = NoCli
    /\ race = NoRace

NextTies == CacheCheck

SpecTies == InitTies /\ [][NextTies]_vars

-----------------------------------------------------------------------------
(* compareSemver alone, over pairs of strings *)

CompareAlphabet == {"0", "1", "9", "."}

\* the strings of length 1..n over the alphabet
Strings(n) == UNION {[1..k -> CompareAlphabet] : k \in 1..n}

\* s with a trailing ".0" component
WithZero(s) == s \o <<".", "0">>

CompareInputs ==
    LET pool == Strings(MaxLen) \cup Versions \cup {<<"1", ".", "1", "2">>}
    IN pool \cup {WithZero(s) : s \in pool}

InitCompare ==
    /\ entry = "latest"
    /\ pc = "compare"
    /\ envVersion = <<>>
    /\ desiredVersion = <<>>
    /\ baseExists = FALSE
    /\ bins = [x \in Dirs |-> "none"]
    /\ zips = [k \in Dirs \X Versions |-> "none"]
    /\ latest = NoRecord
    /\ now = StartClock
    /\ host = NoHost
    /\ net = NoNet
    /\ hist = NoHist
    /\ terraformPath = NoPath
    /\ child = NoChild
    /\ sup = StillRunning
    /\ sigs = <<>>
    /\ runs = 0
    /\ prev = [provisioned |-> <<>>]
    /\ mapIn = <<<<>>, <<>>>>
    /\ mapOut = Unsupported("none")
    /\ cmpIn \in CompareInputs \X CompareInputs
    /\ cmpOut = 0
    /\ argv = NoArgv
    /\ cli = NoCli
    /\ race = NoRace

\* compareSemver(ver, best.ver)
Compare ==
    /\ pc = "compare"
    /\ cmpOut' = compareSemver(cmpIn[1], cmpIn[2])
    /\ pc' = "compared"
    /\ UNCHANGED <<entry, envVersion, desiredVersion, fsVars, now, host, net, hist,
                   terraformPath, childVars, runs, prev, mapIn, mapOut, cmpIn,
                   argv, cli, race>>

NextCompare == Compare

SpecCompare == InitCompare /\ [][NextCompare]_vars

-----------------------------------------------------------------------------
(* The downloader run as a command: parseArguments and the block under
   require.main === module, up to its call of downloadTerraform *)

\* the text of an argument used as a value; names outside the pool of versions
\* stay opaque
Text(arg) ==
    CASE arg = "1.13.3" -> TERRAFORM_VERSION
      [] arg = "1.12.0" -> V1_12_0
      [] OTHER -> <<arg>>

\* args[++i]: undefined past the end of the vector
ValueAt(args, i) == IF i <= Len(args) THEN Text(args[i]) ELSE <<>>

\* the options before the loop; errors collects what console.error printed
DefaultOptions == [version |-> TERRAFORM_VERSION, outputDir |-> <<>>, force |-> FALSE,
                   help |-> FALSE, noExtract |-> FALSE, errors |-> <<>>]

RECURSIVE parseFrom(_, _, _)
\* the loop of parseArguments from index i on
parseFrom(args, i, options) ==
    IF i > Len(args) THEN options
    ELSE LET arg == args[i] IN
         CASE arg \in {"--version", "-v"} ->
                parseFrom(args, i + 2, [options EXCEPT !.version = ValueAt(args, i + 1)])
           [] arg \in {"--output", "-o"} ->
                parseFrom(args, i + 2, [options EXCEPT !.outputDir = ValueAt(args, i + 1)])
           [] arg \in {"--force", "-f"} ->
                parseFrom(args, i + 1, [options EXCEPT !.force = TRUE])
           [] arg = "--no-extract" ->
                parseFrom(args, i + 1, [options EXCEPT !.noExtract = TRUE])
           [] arg \in {"--help", "-h"} ->
                parseFrom(args, i + 1, [options EXCEPT !.help = TRUE])
           [] OTHER ->
                parseFrom(args, i + 1,
                          [options EXCEPT !.help = TRUE,
                                          !.errors = Append(@, <<"Unknown option: ", arg>>)])

\* parseArguments(): the options of process.argv.slice(2)
parseArguments == parseFrom(slice(argv, 2), 1, DefaultOptions)

\* a variant: the force block runs before the help check
Removes_beforeHelp(options) == options.force

\* the force block is reached only past the help check
Removes(options) == ~options.help /\ options.force

\* the require.main === module block: help and exit 0; else the force block
\* (platform mapping, unlink of the archive and of the binary); then the call
\* downloadTerraform(options.version, options.outputDir, !options.noExtract)
CliMain ==
    /\ pc = "cli"
    /\ LET options == parseArguments
           dir == OutputDir(options.version, options.outputDir)
           zip == <<dir, options.version>>
       IN \E h \in Hosts :
          LET p == mapOSArchToTerraform(h[1], h[2]) IN
          /\ host' = IF Removes(options) THEN h ELSE host
          /\ IF Removes(options) /\ ~p.ok
             THEN /\ Fail
                  /\ cli' = [ran |-> TRUE, options |-> options,
                             out |-> options.errors, called |-> FALSE]
                  /\ UNCHANGED <<bins, zips>>
             ELSE /\ zips' = IF Removes(options) /\ zip \in DOMAIN zips
                             THEN [zips EXCEPT ![zip] = "none"] ELSE zips
                  /\ bins' = IF Removes(options) /\ dir \in DOMAIN bins
                             THEN [bins EXCEPT ![dir] = "none"] ELSE bins
                  /\ IF options.help
                     THEN /\ cli' = [ran |-> TRUE, options |-> options,
                                     out |-> Append(options.errors, <<"help">>),
                                     called |-> FALSE]
                          /\ sup' = ExitedWith(0)
                          /\ pc' = "exited"
                     ELSE /\ cli' = [ran |-> TRUE, options |-> options,
                                     out |-> options.errors, called |-> TRUE]
                          /\ pc' = "provision"
                          /\ sup' = sup
    /\ UNCHANGED <<entry, envVersion, desiredVersion, baseExists, latest, now, net,
                   hist, terraformPath, child, sigs, runs, prev,
                   mapIn, mapOut, cmpIn, cmpOut, argv, race>>

\* arguments given to the downloader
CliArguments == {"--version", "-o", "--force", "--no-extract", "-h", "--bogus", "1.12.0"}

\* the archives on disk before the command runs: none, or one
CliZips ==
    {[z \in Dirs \X Versions |-> "none"]}
    \cup {[z \in Dirs \X Versions |-> IF z = k THEN "good" ELSE "none"] : k \in Dirs \X Versions}

InitCli ==
    /\ entry = "cli"
    /\ pc = "cli"
    /\ envVersion = <<>>
    /\ desiredVersion = <<>>
    /\ baseExists = TRUE
    /\ bins \in InitialBins
    /\ zips \in CliZips
    /\ latest = NoRecord
    /\ now = StartClock
    /\ host = NoHost
    /\ net = NoNet
    /\ hist = NoHist
    /\ terraformPath = NoPath
    /\ child = NoChild
    /\ sup = StillRunning
    /\ sigs = <<>>
    /\ runs = 1
    /\ prev = [provisioned |-> <<>>]
    /\ mapIn = <<<<>>, <<>>>>
    /\ mapOut = Unsupported("none")
    /\ cmpIn = <<<<>>, <<>>>>
    /\ cmpOut = 0
    /\ argv \in {ProcessArgv(args) : args \in SeqsUpTo(CliArguments, MaxArgs)}
    /\ cli = NoCli
    /\ race = NoRace

NextCli == CliMain

SpecCli == InitCli /\ [][NextCli]_vars

-----------------------------------------------------------------------------
(* Concurrent invocations: downloadTerraform for one version run by several
   processes at once, interleaved at the file-system calls. The processes
   share the disk and nothing else; the code takes no lock. *)

Invocations == 1..MaxInvocations

\* where an invocation is; linked: the file it writes is still the one at the
\* archive path; truncated: another invocation opened the file after it did
Invocation(at) == [pc |-> at, linked |-> FALSE, truncated |-> FALSE]

\* fs.unlinkSync(outputPath): the writers of that file write to no path any more
Unlinked(r) == [q \in Invocations |-> [r[q] EXCEPT !.linked = FALSE]]

raceFrame == <<entry, pc, envVersion, desiredVersion, latest, now, host, net, hist,
               terraformPath, childVars, runs, prev,
               mapIn, mapOut, cmpIn, cmpOut, argv, cli>>

\* if (fs.existsSync(outputPath)): extract what is there, else download
RaceCheck(p) ==
    /\ race[p].pc = "check"
    /\ race' = [race EXCEPT ![p].pc = IF ArchiveOnDisk(CurZip) THEN "extract" ELSE "open"]
    /\ UNCHANGED <<fsVars, raceFrame>>

\* a variant: the download starts only while no other invocation is at work
RaceOpen_locked(p) ==
    /\ race[p].pc = "open"
    /\ \A q \in Invocations \ {p} : race[q].pc \notin {"fetch", "extract", "finalize"}
    /\ zips' = [zips EXCEPT ![CurZip] = "partial"]
    /\ baseExists' = TRUE
    /\ race' = [q \in Invocations |->
                  IF q = p THEN [pc |-> "fetch", linked |-> TRUE, truncated |-> FALSE]
                  ELSE IF race[q].pc = "fetch" /\ race[q].linked
                       THEN [race[q] EXCEPT !.truncated = TRUE]
                       ELSE race[q]]
    /\ UNCHANGED <<bins, latest, raceFrame>>

\* mkdirSync(dir) and downloadFile: fs.createWriteStream(outputPath) creates
\* the file or truncates the one that is there, and the request is sent
RaceOpen(p) ==
    /\ race[p].pc = "open"
    /\ zips' = [zips EXCEPT ![CurZip] = "partial"]
    /\ baseExists' = TRUE
    /\ race' = [q \in Invocations |->
                  IF q = p THEN [pc |-> "fetch", linked |-> TRUE, truncated |-> FALSE]
                  ELSE IF race[q].pc = "fetch" /\ race[q].linked
                       THEN [race[q] EXCEPT !.truncated = TRUE]
                       ELSE race[q]]
    /\ UNCHANGED <<bins, latest, raceFrame>>

\* file 'finish': the body has been written. A file that was truncated by a
\* writer still at work holds its whole content or not yet
RaceFetchCompletes(p) ==
    /\ race[p].pc = "fetch"
    /\ race' = [race EXCEPT ![p].pc = "extract"]
    /\ IF ~race[p].linked
       THEN zips' = zips
       ELSE IF race[p].truncated
               /\ \E q \in Invocations \ {p} : race[q].pc = "fetch" /\ race[q].linked
       THEN \E content \in {"partial", "good"} : zips' = [zips EXCEPT ![CurZip] = content]
       ELSE zips' = [zips EXCEPT ![CurZip] = "good"]
    /\ UNCHANGED <<baseExists, bins, latest, raceFrame>>

\* a rejected download: the file at the path is unlinked (an unlink of a path
\* that is gone throws out of the handler) and the process exits with 1
RaceFetchFails(p) ==
    /\ race[p].pc = "fetch"
    /\ zips' = [zips EXCEPT ![CurZip] = "none"]
    /\ race' = [Unlinked(race) EXCEPT ![p].pc = "failed"]
    /\ UNCHANGED <<baseExists, bins, latest, raceFrame>>

\* extractZip(outputPath, extractDir): a whole archive gives the binary; a
\* partial or missing one makes it throw and the process exits with 1
RaceExtract(p) ==
    /\ race[p].pc = "extract"
    /\ IF zips[CurZip] = "good"
       THEN /\ bins' = [bins EXCEPT ![CurDir] = "exec"]
            /\ race' = [race EXCEPT ![p].pc = "finalize"]
       ELSE /\ bins' = bins
            /\ race' = [race EXCEPT ![p].pc = "failed"]
    /\ UNCHANGED <<baseExists, zips, latest, raceFrame>>

\* the binary is there: the archive is unlinked (best effort), the path returned
RaceFinalize(p) ==
    /\ race[p].pc = "finalize"
    /\ IF BinExists(bins, CurDir)
       THEN \E removed \in BOOLEAN :
              IF removed /\ zips[CurZip] # "none"
              THEN /\ zips' = [zips EXCEPT ![CurZip] = "none"]
                   /\ race' = [Unlinked(race) EXCEPT ![p].pc = "done"]
              ELSE /\ zips' = zips
                   /\ race' = [race EXCEPT ![p].pc = "done"]
       ELSE /\ zips' = zips
            /\ race' = [race EXCEPT ![p].pc = "failed"]
    /\ UNCHANGED <<baseExists, bins, latest, raceFrame>>

\* every invocation is about to test for the archive of the same version; no
\* archive is on disk
InitRace ==
    /\ entry = "latest"
    /\ pc = "provision"
    /\ envVersion = <<>>
    /\ desiredVersion \in Versions
    /\ baseExists = TRUE
    /\ bins \in InitialBins
    /\ zips = [k \in Dirs \X Versions |-> "none"]
    /\ latest = NoRecord
    /\ now = StartClock
    /\ host = NoHost
    /\ net = NoNet
    /\ hist = NoHist
    /\ terraformPath = NoPath
    /\ child = NoChild
    /\ sup = StillRunning
    /\ sigs = <<>>
    /\ runs = 1
    /\ prev = [provisioned |-> <<>>]
    /\ mapIn = <<<<>>, <<>>>>
    /\ mapOut = Unsupported("none")
    /\ cmpIn = <<<<>>, <<>>>>
    /\ cmpOut = 0
    /\ argv = NoArgv
    /\ cli = NoCli
    /\ race = [p \in Invocations |-> Invocation("check")]

NextRace ==
    \E p \in Invocations :
        \/ RaceCheck(p)
        \/ RaceOpen(p)
        \/ RaceFetchCompletes(p)
        \/ RaceFetchFails(p)
        \/ RaceExtract(p)
        \/ RaceFinalize(p)

SpecRace == InitRace /\ [][NextRace]_vars

-----------------------------------------------------------------------------
(* Properties *)

Range(q) == {q[i] : i \in DOMAIN q}

\* C1 (SpecSup): when the child exits normally with code c the supervisor
\* exits with exactly c; when neither a code nor a signal is reported it exits
\* with 1.
C1_ExitCodeMirrored ==
    (pc = "exited" /\ child.status = "exited" /\ child.signal = "none")
        => /\ sup.kind = "code"
           /\ child.code \in 0..MaxCode => sup.code = child.code
           /\ child.code = -1 => sup.code = 1

C1_Witness ==
    /\ pc = "exited" /\ child.status = "exited" /\ child.signal = "none"
    /\ child.code = 2 /\ sup = ExitedWith(2)
    /\ sigs # <<>>

\* C2 (SpecSup), as claimed: when the child was ended by a signal S, the
\* supervisor ends by that same signal S, not with an exit code.
C2_SignalReRaised ==
    (pc = "exited" /\ child.status = "exited" /\ child.signal # "none")
        => sup = KilledBy(child.signal)

\* C3 (SpecSup), as claimed: while the child runs, every signal the supervisor
\* received has been forwarded to it, in order, and the supervisor has not
\* ended.
C3_EverySignalForwarded ==
    (pc = "running" /\ child.status = "running")
        => child.got = sigs /\ sup = StillRunning

\* C4 (Spec): a run enters the phases Resolve, CacheCheck, PathProbe,
\* Provision, Fetch, Extract, Finalize in that order, each at most once and
\* never an earlier one again; an archive is fetched only after the cache
\* lookup missed and the PATH probe failed, and a cache hit makes no PATH probe.
PhaseOrder == <<"Resolve", "CacheCheck", "PathProbe", "Provision", "Fetch",
                "Extract", "Finalize">>

PhaseRank(ph) == CHOOSE i \in DOMAIN PhaseOrder : PhaseOrder[i] = ph

C4_LinearPhases ==
    /\ \A i, j \in DOMAIN hist.phases :
           i < j => PhaseRank(hist.phases[i]) < PhaseRank(hist.phases[j])
    /\ hist.fetches # <<>> =>
           /\ ~hist.cacheHit /\ hist.probe = "fail"
           /\ {"CacheCheck", "PathProbe", "Provision"} \subseteq Range(hist.phases)
    /\ hist.cacheHit => hist.probe = "none" /\ "PathProbe" \notin Range(hist.phases)

C4_Witness ==
    /\ pc = "spawn"
    /\ hist.phases = PhaseOrder
    /\ hist.fetches # <<>> /\ ~hist.cacheHit /\ hist.probe = "fail"

\* C5 (Spec), as claimed: when the previous run provisioned V by download and
\* extraction, a run with V pinned right after it (same disk, still no
\* terraform on PATH) fetches nothing and returns from the cache.
C5_SecondEnsureIsCacheHit ==
    (prev.provisioned # <<>> /\ envVersion = prev.provisioned /\ hist.probe # "ok")
        => /\ hist.fetches = <<>>
           /\ pc = "spawn" => hist.cacheHit

\* C6 (Spec), as claimed: from an empty cache, no terraform on PATH and V
\* pinned, ensure makes exactly one fetch, of V's archive for the mapped
\* platform, extracts it into V's directory and returns ~/.ntf/V/terraform.
C6_ProvisionsIntoRequestedDir ==
    (pc = "spawn" /\ hist.coldStart /\ hist.probe = "fail" /\ envVersion # <<>>)
        => /\ Len(hist.fetches) = 1
           /\ hist.fetches[1] = [version |-> envVersion,
                                 os |-> mapOS(host[1]), arch |-> mapArch(host[2])]
           /\ hist.extracts = <<envVersion>>
           /\ terraformPath = CachePath(envVersion)

\* C7 (Spec), as claimed: with V pinned, a cache path that ensure returns is
\* V's entry ~/.ntf/V/terraform, never another version's.
C7_PinnedVersionOnly ==
    (pc = "spawn" /\ envVersion # <<>> /\ terraformPath.kind = "cache")
        => terraformPath = CachePath(envVersion)

\* C8 (SpecMap): for every pair of names of the mapping table (letter case
\* aside) the mapper returns the listed target os and arch; for every other
\* pair it fails and returns no default.
TableOS == {<<s_windows, s_windows>>, <<s_macos, s_darwin>>, <<s_linux, s_linux>>,
            <<s_freebsd, s_freebsd>>, <<s_openbsd, s_openbsd>>,
            <<s_solaris, s_solaris>>, <<s_sunos, s_solaris>>}

TableArch == {<<s_x64, s_amd64>>, <<s_x86_64, s_amd64>>, <<s_x86, s_386>>,
              <<s_ia32, s_386>>, <<s_arm64, s_arm64>>, <<s_aarch64, s_arm64>>,
              <<s_arm, s_arm>>}

C8_MapperMatchesTable ==
    pc = "mapped" =>
        LET inOS == {row \in TableOS : row[1] = toLowerCase(mapIn[1])}
            inArch == {row \in TableArch : row[1] = toLowerCase(mapIn[2])}
        IN IF inOS # {} /\ inArch # {}
           THEN /\ mapOut.ok
                /\ \A row \in inOS : mapOut.os = row[2]
                /\ \A row \in inArch : mapOut.arch = row[2]
           ELSE ~mapOut.ok /\ mapOut.os = <<>> /\ mapOut.arch = <<>>

C8_Witness ==
    /\ pc = "mapped"
    /\ mapIn = <<<<"S", "u", "n", "O", "S">>, s_aarch64>>
    /\ mapOut.ok /\ mapOut.os = s_solaris /\ mapOut.arch = s_arm64

\* C9 (Spec): with a version pinned, the desired version is the pinned one as
\* it stands, no request goes to either index and the latest-version file is
\* neither read nor written.
C9_ExplicitVersionVerbatim ==
    (envVersion # <<>> /\ pc \notin {"idle", "resolve"})
        => /\ desiredVersion = envVersion
           /\ hist.primary = 0 /\ hist.tags = 0
           /\ hist.recReads = 0 /\ hist.recWrites = 0

C9_Witness ==
    /\ pc = "spawn" /\ entry = "latest"
    /\ envVersion = V1_12_0 /\ desiredVersion = V1_12_0
    /\ latest.kind = "json" /\ latest.version = TERRAFORM_VERSION
    /\ now - latest.mtime < ONE_HOUR_MS

\* C10 (Spec): with no version pinned, a latest-version record less than one
\* hour old is returned without any request; a record that is absent,
\* unreadable or one hour old or older leads to exactly one lookup attempt.
SpecHourMs == 3600 * 1000

SawFreshRecord ==
    /\ hist.recordSeen.kind = "json"
    /\ hist.recordSeen.version # <<>>
    /\ now - hist.recordSeen.mtime < SpecHourMs

C10_FreshRecordOrOneLookup ==
    (entry = "latest" /\ envVersion = <<>> /\ pc \notin {"idle", "resolve"})
        => /\ hist.recReads = 1
           /\ SawFreshRecord =>
                  /\ hist.primary = 0 /\ hist.tags = 0
                  /\ desiredVersion = hist.recordSeen.version
           /\ ~SawFreshRecord => hist.primary = 1 /\ hist.tags <= 1

C10_Witness ==
    /\ entry = "latest" /\ envVersion = <<>> /\ pc = "cacheCheck"
    /\ hist.recordSeen.kind = "json"
    /\ now - hist.recordSeen.mtime = SpecHourMs - 1
    /\ desiredVersion = hist.recordSeen.version /\ desiredVersion # <<>>
    /\ hist.primary = 0

\* C11 (Spec): when the lookup of the latest version fails (the primary index
\* and then the secondary one yield no version), the run is not ended by it:
\* it goes on to the cache lookup with no desired version, from there to the
\* PATH probe and, on a miss, to provisioning of the built-in default version;
\* it ends in failure only from the provisioning steps.
LookupFailed ==
    /\ entry = "latest" /\ envVersion = <<>>
    /\ hist.primary = 1 /\ hist.tags = 1
    /\ desiredVersion = <<>>
    /\ pc \notin {"idle", "resolve", "lookupPrimary", "lookupTags"}

C11_LookupFailureNotFatal ==
    LookupFailed =>
        /\ "CacheCheck" \in Range(hist.phases)
        /\ pc = "exited" =>
               /\ hist.probe = "fail"
               /\ "Provision" \in Range(hist.phases)
        /\ \A i \in DOMAIN hist.fetches : hist.fetches[i].version = TERRAFORM_VERSION
        /\ pc = "spawn" => terraformPath \in {SystemPath, CachePath(TERRAFORM_VERSION)}

C11_Witness ==
    /\ LookupFailed
    /\ pc = "spawn"
    /\ Len(hist.fetches) = 1
    /\ terraformPath = CachePath(TERRAFORM_VERSION)

\* C12 (Spec), as claimed: whenever the request to the primary index was made
\* and the resolver ended without a version, the secondary index was queried.
C12_SecondaryQueriedBeforeGivingUp ==
    (/\ entry = "latest" /\ envVersion = <<>>
     /\ hist.primary = 1
     /\ desiredVersion = <<>>
     /\ pc \notin {"idle", "resolve", "lookupPrimary", "lookupTags"})
        => hist.tags = 1

\* C13 (SpecFetch), as claimed: a response to the archive request with status
\* 301, 302, 303, 307 or 308 (and a Location) is followed; it never is the
\* status of a failed download.
SpecRedirectStatuses == {301, 302, 303, 307, 308}

C13_RedirectStatusesFollowed ==
    (net.to = "archive" /\ net.status \in SpecRedirectStatuses)
        => pc = "fetch" /\ sup = StillRunning

\* C14 (SpecFetch): when a chain of redirects (of length 3, or any other)
\* ends in a 200 response, downloadFile resolves and the destination file holds
\* the body of that response and nothing else.
C14_RedirectChainBody ==
    (pc = "extract" /\ net.to = "archive")
        => /\ net.status = 200 /\ net.error = "none"
           /\ sup = StillRunning
           /\ zips[CurZip] \in ArchiveContents
           /\ net.piped = <<zips[CurZip]>>

C14_Witness ==
    /\ pc = "extract" /\ net.to = "archive"
    /\ net.hops = 3 /\ net.status = 200
    /\ net.piped = <<"good">> /\ zips[CurZip] = "good"

\* C15 (SpecFetch): when the response that ends the download has a status
\* that is neither 2xx nor a redirect (404), the download fails and no file
\* is left at the destination path.
C15_TerminalErrorLeavesNoFile ==
    (/\ net.to = "archive" /\ net.error = "none"
     /\ net.status # 0
     /\ net.status \notin 200..299
     /\ net.status \notin SpecRedirectStatuses)
        => /\ pc = "exited" /\ sup = ExitedWith(1)
           /\ zips[CurZip] = "none"

C15_Witness ==
    /\ net.to = "archive" /\ net.status = 404
    /\ pc = "exited" /\ sup = ExitedWith(1)
    /\ zips[CurZip] = "none"

\* C16 (SpecFetch), as claimed: a network failure, before the response or in
\* the middle of the body, ends the download in failure with the partial file
\* deleted.
C16_NetworkFailureCleansUp ==
    (net.to = "archive" /\ net.error # "none")
        => /\ pc = "exited" /\ sup = ExitedWith(1)
           /\ zips[CurZip] = "none"

\* C17 (SpecFind), as claimed: findCachedTerraform returns the desired
\* version's binary when it exists; otherwise the script with the
\* best-available mode returns the binary of the highest version among the
\* directories named by a three-component numeric version that hold one; it
\* returns nothing when ~/.ntf is absent or no such directory exists.
ThreeComponentName(name) ==
    LET parts == split(name) IN
    /\ Len(parts) = 3
    /\ \A i \in 1..3 : parts[i] # <<>> /\ \A k \in DOMAIN parts[i] : IsDigit(parts[i][k])

VersionDirsWithBinary == {d \in DOMAIN bins : ThreeComponentName(d) /\ BinExists(bins, d)}

C17_FindCachedAsSpecified ==
    (pc \in {"spawn", "pathProbe"} /\ ~hist.readError) =>
        IF ~baseExists THEN terraformPath = NoPath
        ELSE IF desiredVersion # <<>> /\ BinExists(bins, desiredVersion)
        THEN terraformPath = CachePath(desiredVersion)
        ELSE IF entry = "plain"
        THEN IF VersionDirsWithBinary = {}
             THEN terraformPath = NoPath
             ELSE /\ terraformPath.kind = "cache"
                  /\ terraformPath.dir \in VersionDirsWithBinary
                  /\ \A d \in VersionDirsWithBinary :
                         compareSemver(terraformPath.dir, d) >= 0
        ELSE terraformPath.kind \in {"none", "cache"}

\* C18 (SpecCompare): compareSemver(a, b) = -compareSemver(b, a) for all a and
\* b, and two strings of which one is the other with a trailing ".0" compare
\* equal (1.12 and 1.12.0).
C18_CompareNumericAntisymmetric ==
    pc = "compared" =>
        /\ cmpOut \in {-1, 0, 1}
        /\ cmpOut = 0 - compareSemver(cmpIn[2], cmpIn[1])
        /\ (cmpIn[2] = WithZero(cmpIn[1]) \/ cmpIn[1] = WithZero(cmpIn[2])) => cmpOut = 0

C18_Witness ==
    /\ pc = "compared"
    /\ cmpIn = <<<<"1", ".", "1", "2">>, V1_12_0>>
    /\ cmpOut = 0

\* C19 (Spec), as claimed: a cache path that ensure returns (the hosts are not
\* Windows) names a binary with the executable permission set.
C19_ReturnedCachePathExecutable ==
    (pc = "spawn" /\ terraformPath.kind = "cache") => IsExecutable(terraformPath)

\* C20 (Spec), as claimed: a run that fails while provisioning (platform,
\* download, extraction, missing binary) ends with a non-zero exit code and
\* without a path to spawn.
C20_ProvisionFailureExitsNonZero ==
    (pc = "exited" /\ "Provision" \in Range(hist.phases))
        => /\ sup.kind = "code" /\ sup.code # 0
           /\ terraformPath = NoPath
           /\ hist.spawns = 0

\* C21 (SpecSup): when spawning the executable fails, the supervisor exits
\* with code 1 and has made that one spawn attempt only.
C21_SpawnFailureIsTerminal ==
    /\ hist.spawns <= 1
    /\ (pc = "exited" /\ child.status = "none")
           => hist.spawns = 1 /\ sup = ExitedWith(1)

C21_Witness ==
    /\ pc = "exited" /\ child.status = "none"
    /\ terraformPath.kind = "cache" /\ ~IsExecutable(terraformPath)
    /\ hist.spawns = 1 /\ sup = ExitedWith(1)

\* C22 (SpecSup): the child's argument vector is the supervisor's own
\* arguments (process.argv without the interpreter and the script), same
\* elements in the same order, and the child has the parent's environment and
\* standard streams.
C22_ArgumentsPassedThrough ==
    child.status # "none" =>
        /\ Len(child.args) = Len(argv) - 2
        /\ \A i \in DOMAIN child.args : child.args[i] = argv[i + 2]
        /\ child.env = "process.env"
        /\ child.stdio = "inherit"

C22_Witness ==
    /\ child.status = "running"
    /\ argv = <<"node", "script", "--version", "-h">>
    /\ child.args = <<"--version", "-h">>

\* the arguments in option position that parseArguments does not know: an
\* argument that follows --version, -v, --output or -o is that option's value
TakesValue == {"--version", "-v", "--output", "-o"}
Switches == {"--force", "-f", "--no-extract", "--help", "-h"}

RECURSIVE UnknownOptions(_, _)
UnknownOptions(args, i) ==
    IF i > Len(args) THEN <<>>
    ELSE IF args[i] \in TakesValue THEN UnknownOptions(args, i + 2)
    ELSE IF args[i] \in Switches THEN UnknownOptions(args, i + 1)
    ELSE <<args[i]>> \o UnknownOptions(args, i + 1)

\* C23 (SpecCli): when the argument vector holds an unknown flag, the command
\* prints an unknown-option notice for it and then the help text, exits with
\* code 0, never calls downloadTerraform and removes no file (also with
\* --force in the same vector).
C23_UnknownFlagOnlyHelp ==
    [][(pc = "cli" /\ UnknownOptions(slice(argv, 2), 1) # <<>>)
          => LET unknown == UnknownOptions(slice(argv, 2), 1) IN
             /\ pc' = "exited"
             /\ sup' = ExitedWith(0)
             /\ UNCHANGED fsVars
             /\ ~cli'.called
             /\ cli'.out = [i \in 1..Len(unknown) |-> <<"Unknown option: ", unknown[i]>>]
                               \o <<<<"help">>>>]_vars

C23_Witness ==
    /\ pc = "exited"
    /\ argv = <<"node", "script", "--force", "--bogus">>
    /\ cli.options.force
    /\ zips[<<DEFAULT_OUTPUT_DIR, TERRAFORM_VERSION>>] = "good"
    /\ bins[DEFAULT_OUTPUT_DIR] = "exec"
    /\ cli.out = <<<<"Unknown option: ", "--bogus">>, <<"help">>>>
    /\ sup = ExitedWith(0)

\* C24 (Spec), as claimed: a download that failed with a network error is tried
\* again within the same run, so that no run ends on a network error after a
\* single request for the archive.
C24_FailedDownloadRetried ==
    (pc = "exited" /\ net.to = "archive" /\ net.error = "request")
        => Len(hist.fetches) >= 2

\* C25 (Spec): at the check in Provision, an archive of the canonical name that
\* is on disk is taken as it is (no fetch, the file untouched, Extract next);
\* a fetch starts only when no such file is there.
C25_ExistingArchiveSkipsFetch ==
    [][(pc = "provision" /\ pc' \in {"fetch", "extract"})
          => IF zips[CurZip] # "none"
             THEN /\ pc' = "extract"
                  /\ hist'.fetches = hist.fetches
                  /\ zips' = zips
             ELSE /\ pc' = "fetch"
                  /\ Len(hist'.fetches) = Len(hist.fetches) + 1]_vars

C25_Witness ==
    /\ pc = "extract"
    /\ hist.fetches = <<>>
    /\ "Fetch" \notin Range(hist.phases)
    /\ zips[CurZip] = "good"

\* C26 (Spec): after extraction the path is returned only if the binary is in
\* the target directory, and otherwise the run fails; the archive is deleted or,
\* when the deletion fails, left as it was, with the same path returned.
C26_BinaryCheckedArchiveBestEffort ==
    [][pc = "finalize"
          => IF BinExists(bins, CurDir)
             THEN /\ pc' = "spawn"
                  /\ terraformPath' = CachePath(CurDir)
                  /\ sup' = StillRunning
                  /\ zips'[CurZip] \in {"none", zips[CurZip]}
             ELSE /\ pc' = "exited"
                  /\ sup' = ExitedWith(1)
                  /\ terraformPath' = terraformPath]_vars

C26_Witness ==
    /\ pc = "spawn"
    /\ "Finalize" \in Range(hist.phases)
    /\ terraformPath = CachePath(CurDir)
    /\ BinExists(bins, CurDir)
    /\ zips[CurZip] # "none"

\* C27 (SpecFind): a call of findCached leaves the disk as it was, and a second
\* call with the same argument on the same cache returns what the first
\* returned.
C27_FindCachedReadOnlyRepeatable ==
    [][/\ UNCHANGED fsVars
       /\ (pc' = "checkedAgain" => terraformPath' = terraformPath)]_vars

C27_Witness ==
    /\ pc = "checkedAgain"
    /\ entry = "plain"
    /\ desiredVersion = <<>>
    /\ terraformPath = CachePath(TERRAFORM_VERSION)
    /\ Cardinality({d \in DOMAIN bins : BinExists(bins, d)}) >= 2

\* C28 (Spec): a latest-version file that cannot be read or parsed counts as no
\* record, so the remote lookup is made and the run goes on to the cache check;
\* a cache root that cannot be listed counts as a miss, so the run goes on to
\* the PATH probe. Neither ends the run.
C28_CacheReadFailureIsNotFound ==
    /\ (hist.recReads = 1 /\ hist.recordSeen.kind = "corrupt")
           => /\ hist.primary = 1
              /\ pc = "exited" => "CacheCheck" \in Range(hist.phases)
    /\ hist.readError
           => /\ ~hist.cacheHit
              /\ "PathProbe" \in Range(hist.phases)
              /\ pc = "pathProbe" => terraformPath = NoPath /\ sup = StillRunning

C28_Witness ==
    /\ pc = "cacheCheck"
    /\ hist.recordSeen.kind = "corrupt"
    /\ hist.primary = 1
    /\ desiredVersion # <<>>
    /\ sup = StillRunning

\* the tag without one leading 'v' or 'V'
StripV(tag) ==
    IF tag # <<>> /\ tag[1] \in {"v", "V"} THEN SubSeq(tag, 2, Len(tag)) ELSE tag

\* C29 (Spec): after a successful remote lookup the desired version is the tag
\* without one leading 'v'/'V'; the latest-version record then holds that
\* version, written at the time of the run, or, when the write failed, is what
\* it was before; either way the run goes on with the version.
C29_LookupResultNormalizedAndPersisted ==
    hist.recWrites = 1 =>
        /\ desiredVersion = StripV(hist.tag)
        /\ desiredVersion # <<>>
        /\ \/ latest = [kind |-> "json", version |-> desiredVersion, mtime |-> now]
           \/ latest = hist.recordSeen
        /\ "CacheCheck" \in Range(hist.phases)
        /\ pc = "cacheCheck" => sup = StillRunning

C29_Witness ==
    /\ pc = "cacheCheck"
    /\ hist.recWrites = 1
    /\ hist.tag = <<"V">> \o TERRAFORM_VERSION
    /\ desiredVersion = TERRAFORM_VERSION
    /\ latest = hist.recordSeen
    /\ latest.kind = "absent"

\* C30 (SpecRace): invocations of ensure for the same version are not
\* mutually excluded: whatever the others are doing, an invocation at the test
\* for the archive can make it, and one that found no archive can open the
\* file and start its download.
C30_NoMutualExclusion ==
    \A p \in Invocations :
        /\ race[p].pc = "check" => ENABLED RaceCheck(p)
        /\ race[p].pc = "open" => ENABLED RaceOpen(p)

C30_Witness ==
    /\ race[1].pc = "fetch" /\ race[1].linked
    /\ race[2].pc = "fetch" /\ race[2].linked
    /\ zips[CurZip] = "partial"
    /\ bins[CurDir] = "none"

\* C31 (SpecFetchLive), as claimed: every fetch comes to an end, whatever the
\* servers answer; a chain of redirects that goes on, a cycle included, is
\* given up instead of being followed forever.
C31_FetchTerminates == <>(pc # "fetch")

\* C32 (Spec), as claimed: an archive that the test for an existing archive
\* finds, and that is extracted without a fetch, is a completely downloaded
\* one, never the partial file of a download that did not finish.
C32_ExistingArchiveIsComplete ==
    (pc = "extract" /\ "Fetch" \notin Range(hist.phases))
        => zips[CurZip] \in ArchiveContents

\* C33 (SpecTies), as claimed: without a desired version in the cache, the
\* path the plain script's lookup returns is the one every enumeration
\* order of the cache root's subdirectories gives.
C33_ResultIndependentOfOrder ==
    (pc \in {"spawn", "pathProbe"} /\ ~hist.readError)
        => \A listing \in Listings(DOMAIN bins) :
               listing.ok => findCachedTerraform(listing) = terraformPath

====
